---- MODULE Spec2Model ----
(***************************************************************************)
(* Model of libpharos/masm.cpp: the MASM-style unparser of x86 operand     *)
(* expressions, the addressing-form matcher X86IndirectAddress, and the    *)
(* debug listing routines debug_opcode_bytes / debug_instruction /         *)
(* debug_function.                                                         *)
(*                                                                         *)
(* Representation choices:                                                 *)
(*  - a uint64_t is a sequence of 16 nibbles, most significant first, so   *)
(*    that 64-bit patterns keep their width;                               *)
(*  - text is a sequence of tokens; a token is one character, except for   *)
(*    register names (the external unparseX86Register) and fixed literals  *)
(*    of the source such as "BOGUS:NULL", which are one token each;        *)
(*  - a call's outcome is [st, text, w]: st = "ok" (returned text),        *)
(*    "fatal" (GFATAL + ROSE_ASSERT(false)) or "crash" (abnormal end after *)
(*    undefined behaviour); w is the largest number of bytes one sprintf   *)
(*    wrote into the 64-byte format buffer during the call;                *)
(*  - undefined behaviour yields a set of outcomes, one chosen per call.   *)
(***************************************************************************)
EXTENDS Integers, Sequences, FiniteSets

Null == [k |-> "Null"]

\* ---------------------------------------------------------------- bounds
MaxOperands == 2
MaxData == 3
MaxMaxBytes == 3
MaxBlocks == 2
MaxStmts == 2

\* ------------------------------------------------------ program constants
BufSize == 64

\* ------------------------------------------------------- uint64 arithmetic
Nibbles == 16

\* the sixteen values of f as a tuple
Tuple16(f) ==
  <<f[1], f[2], f[3], f[4], f[5], f[6], f[7], f[8],
    f[9], f[10], f[11], f[12], f[13], f[14], f[15], f[16]>>

U64(s) ==
  Tuple16([i \in 1..Nibbles |-> IF i > Nibbles - Len(s) THEN s[i - (Nibbles - Len(s))] ELSE 0])

Zero64 == U64(<<>>)

One64 == U64(<<1>>)

\* ~v
Compl(v) == Tuple16([i \in 1..Nibbles |-> 15 - v[i]])

RECURSIVE Inc(_)
\* s + 1 modulo 16^Len(s), carrying leftwards from the last nibble
Inc(s) ==
  IF s = <<>> THEN <<>>
  ELSE IF s[Len(s)] = 15 THEN Inc(SubSeq(s, 1, Len(s) - 1)) \o <<0>>
  ELSE SubSeq(s, 1, Len(s) - 1) \o <<s[Len(s)] + 1>>

\* ~v+1 on uint64_t
TwosNeg(v) == Inc(Compl(v))

\* v & (2^w - 1)
AndMask(v, w) == Tuple16([i \in 1..Nibbles |-> IF i > Nibbles - (w \div 4) THEN v[i] ELSE 0])

TopNibble(w) == Nibbles - (w \div 4) + 1

\* v & (1 << (w-1))
SignBit(v, w) == v[TopNibble(w)] >= 8

\* v & ((1 << (w-1)) - 1)
LowBits(v, w) ==
  \/ v[TopNibble(w)] % 8 # 0
  \/ \E i \in (TopNibble(w) + 1)..Nibbles : v[i] # 0

\* sign extension of the low w bits to 64 bits (get_signedValue)
SignExtend(v, w) ==
  Tuple16([i \in 1..Nibbles |-> IF i > Nibbles - (w \div 4) THEN v[i]
                                ELSE IF SignBit(v, w) THEN 15 ELSE 0])

Int64Min == U64(<<8, 0, 0, 0, 0, 0, 0, 0, 0, 0, 0, 0, 0, 0, 0, 0>>)

\* ------------------------------------------------------------ hex printing
LowerHex == <<"0", "1", "2", "3", "4", "5", "6", "7", "8", "9", "a", "b", "c", "d", "e", "f">>

UpperHex == <<"0", "1", "2", "3", "4", "5", "6", "7", "8", "9", "A", "B", "C", "D", "E", "F">>

RECURSIVE StripZeros(_)
StripZeros(s) == IF Len(s) > 1 /\ Head(s) = 0 THEN StripZeros(Tail(s)) ELSE s

RECURSIVE Digits(_, _)
\* the characters of the nibbles s in the alphabet
Digits(s, alphabet) ==
  IF s = <<>> THEN <<>> ELSE <<alphabet[Head(s) + 1]>> \o Digits(Tail(s), alphabet)

\* %llx / std::hex of an unsigned 64-bit value: no prefix, no padding
HexDigits(v) == Digits(StripZeros(v), LowerHex)

\* "%#" PRIx64: the alternate form prefixes 0x to a nonzero result only
FmtAltHex(v) == IF v = Zero64 THEN <<"0">> ELSE <<"0", "x">> \o HexDigits(v)

\* "%02X" of one byte
FmtByte(b) == <<UpperHex[(b \div 16) + 1], UpperHex[(b % 16) + 1]>>


RECURSIVE Dec(_)
\* std::to_string of a small non-negative integer
Dec(n) == IF n < 10 THEN <<LowerHex[n + 1]>> ELSE Dec(n \div 10) \o <<LowerHex[(n % 10) + 1]>>

\* ------------------------------------------------------------- outcomes
Ok(text, w) == [st |-> "ok", text |-> text, w |-> w]

Fatal == [st |-> "fatal", text |-> <<>>, w |-> 0]

Crash(w) == [st |-> "crash", text |-> <<>>, w |-> w]

Max(a, b) == IF a >= b THEN a ELSE b

\* ---------------------------------------------------------- LabelResolver
\* `labels` is a pointer to a RoseLabelMap: null, or a map from uint64 keys
\* to names.
NoLabels == [null |-> TRUE, map |-> [key \in {} |-> <<>>]]

RoseLabelMap(map) == [null |-> FALSE, map |-> map]

masm_x86ValToLabel(val, labels) ==
  IF val = Zero64 \/ labels.null THEN <<>>
  ELSE IF val \notin DOMAIN labels.map THEN <<>>
  ELSE labels.map[val]

\* ------------------------------------------------------- NumericFormatter
\* sprintf(buf, ...) into char buf[64], then result = buf.  Writing more than
\* BufSize bytes (text plus NUL) overruns the buffer: undefined behaviour,
\* after which the call may end abnormally or go on with the text intact.
Sprintf(text) ==
  IF Len(text) + 1 <= BufSize THEN {Ok(text, Len(text) + 1)}
  ELSE {Crash(Len(text) + 1), Ok(text, Len(text) + 1)}

\* the test without its second operand
IsNegativeLiteral_SignOnly(v, bits) == SignBit(v, bits)

\* (v & signbit) && (v & lowbits)
IsNegativeLiteral(v, bits) == SignBit(v, bits) /\ LowBits(v, bits)

\* the numeral branches shared by the four widths
Numeral(v, bits) ==
  IF IsNegativeLiteral(v, bits)
  THEN <<"-">> \o FmtAltHex(AndMask(TwosNeg(v), bits))
  ELSE FmtAltHex(v)

\* case V_SgAsmIntegerValueExpression
UnparseIntegerValue(e, labels) ==
  IF e.w \in {8, 16} THEN Sprintf(Numeral(e.v, e.w))
  ELSE IF e.w \in {32, 64} THEN
    IF masm_x86ValToLabel(e.v, labels) # <<>>
    THEN Sprintf(masm_x86ValToLabel(e.v, labels))
    ELSE Sprintf(Numeral(e.v, e.w))
  ELSE {Ok(<<>>, 0)}

\* ------------------------------------------------- AddressPatternMatcher
IsKind(e, kind) == e.k = kind

EmptyIA ==
  [complete_ |-> FALSE, done |-> FALSE,
   frame_pointer_reg |-> Null, offset_integer |-> Null,
   index_reg |-> Null, stride_integer |-> Null]

\* one iteration of the classification loop; done = TRUE models `return`
ClassifyOperand(ia, op) ==
  IF ia.done THEN ia
  ELSE IF IsKind(op, "Reg") THEN
    IF ia.frame_pointer_reg # Null THEN [ia EXCEPT !.done = TRUE]
    ELSE [ia EXCEPT !.frame_pointer_reg = op]
  ELSE IF IsKind(op, "Int") THEN
    IF ia.offset_integer # Null THEN [ia EXCEPT !.done = TRUE]
    ELSE [ia EXCEPT !.offset_integer = op]
  ELSE IF IsKind(op, "Mul") THEN
    IF IsKind(op.l, "Reg") THEN
      IF IsKind(op.r, "Int") THEN
        IF ia.index_reg # Null THEN [ia EXCEPT !.done = TRUE]
        ELSE [ia EXCEPT !.index_reg = op.l, !.stride_integer = op.r]
      ELSE [ia EXCEPT !.done = TRUE]
    ELSE IF IsKind(op.r, "Reg") THEN
      IF IsKind(op.l, "Int") THEN
        IF ia.index_reg # Null THEN [ia EXCEPT !.done = TRUE]
        ELSE [ia EXCEPT !.index_reg = op.r, !.stride_integer = op.l]
      ELSE [ia EXCEPT !.done = TRUE]
    ELSE [ia EXCEPT !.done = TRUE]
  ELSE ia

\* the three flattened operands, or <<>> when there is no second Add
FlattenOperands(add1) ==
  IF IsKind(add1.l, "Add") THEN <<add1.l.l, add1.l.r, add1.r>>
  ELSE IF IsKind(add1.r, "Add") THEN <<add1.l, add1.r.l, add1.r.r>>
  ELSE <<>>

FinishIA(ia) == IF ia.done THEN ia ELSE [ia EXCEPT !.complete_ = TRUE, !.done = TRUE]

\* the constructor X86IndirectAddress(expr)
X86IndirectAddress(expr) ==
  IF ~IsKind(expr, "Mem") THEN EmptyIA
  ELSE IF ~IsKind(expr.addr, "Add") THEN EmptyIA
  ELSE IF FlattenOperands(expr.addr) = <<>> THEN EmptyIA
  ELSE FinishIA(ClassifyOperand(ClassifyOperand(ClassifyOperand(EmptyIA,
           FlattenOperands(expr.addr)[1]),
           FlattenOperands(expr.addr)[2]),
           FlattenOperands(expr.addr)[3]))

\* the stride part of emit(): printed under std::hex, only when val != 1
EmitStride(val) == IF val # One64 THEN <<"*">> \o HexDigits(val) ELSE <<>>

\* os << (neg ? '-' : '+') << "0x" << (neg ? -offset : offset)
EmitOffset(neg, offset) ==
  <<IF neg THEN "-" ELSE "+", "0", "x">> \o HexDigits(IF neg THEN TwosNeg(offset) ELSE offset)

EmitText(ia) ==
  <<"[", ia.frame_pointer_reg.r, "+", ia.index_reg.r>>
  \o EmitStride(ia.stride_integer.v)
  \o EmitOffset(SignBit(ia.offset_integer.v, ia.offset_integer.w),
                SignExtend(ia.offset_integer.v, ia.offset_integer.w))
  \o <<"]">>

\* X86IndirectAddress::emit.  Dereferencing an unset member, and negating
\* INT64_MIN, are undefined behaviour.
emit(ia) ==
  IF \/ ia.frame_pointer_reg = Null \/ ia.index_reg = Null
     \/ ia.stride_integer = Null \/ ia.offset_integer = Null
  THEN {Crash(0), Ok(<<"<garbage>">>, 0)}
  ELSE IF /\ SignBit(ia.offset_integer.v, ia.offset_integer.w)
          /\ SignExtend(ia.offset_integer.v, ia.offset_integer.w) = Int64Min
  THEN {Ok(EmitText(ia), 0), Crash(0)}
  ELSE {Ok(EmitText(ia), 0)}

\* ----------------------------------------------------- ExpressionUnparser
JoinAdd(lstr, rstr) ==
  IF rstr # <<>> /\ rstr[1] = "-" THEN lstr \o rstr ELSE lstr \o <<"+">> \o rstr

JoinSubtract(lstr, rstr) == lstr \o <<"-">> \o rstr

JoinMultiply(lstr, rstr) == lstr \o <<"*">> \o rstr

\* result += segreg + ":" only for fs; then "[" + address + "]"
JoinMemory(segreg, astr) ==
  (IF segreg = <<"fs">> THEN <<"fs", ":">> ELSE <<>>) \o <<"[">> \o astr \o <<"]">>

Join(how, lstr, rstr) ==
  IF how = "Add" THEN JoinAdd(lstr, rstr)
  ELSE IF how = "Sub" THEN JoinSubtract(lstr, rstr)
  ELSE IF how = "Mul" THEN JoinMultiply(lstr, rstr)
  ELSE IF how = "Mem" THEN JoinMemory(lstr, rstr)
  ELSE lstr \o rstr

\* lstr then rstr, joined; an abnormal end of either ends the call
Binary(L, R, how) ==
  {IF l.st # "ok" THEN l
   ELSE IF r.st # "ok" THEN [r EXCEPT !.w = Max(l.w, r.w)]
   ELSE Ok(Join(how, l.text, r.text), Max(l.w, r.w)) : l \in L, r \in R}

RECURSIVE masm_unparseX86Expression(_, _, _)
\* the four-argument overload; insn is passed through and never read
masm_unparseX86Expression(expr, leaMode, labels) ==
  IF expr = Null THEN {Ok(<<"BOGUS:NULL">>, 0)}
  ELSE IF IsKind(expr, "Add") THEN
    Binary(masm_unparseX86Expression(expr.l, FALSE, labels),
           masm_unparseX86Expression(expr.r, FALSE, labels), "Add")
  ELSE IF IsKind(expr, "Sub") THEN
    Binary(masm_unparseX86Expression(expr.l, FALSE, labels),
           masm_unparseX86Expression(expr.r, FALSE, labels), "Sub")
  ELSE IF IsKind(expr, "Mul") THEN
    Binary(masm_unparseX86Expression(expr.l, FALSE, labels),
           masm_unparseX86Expression(expr.r, FALSE, labels), "Mul")
  ELSE IF IsKind(expr, "Mem") THEN
    IF X86IndirectAddress(expr).complete_ THEN emit(X86IndirectAddress(expr))
    ELSE Binary(IF ~leaMode /\ expr.seg # Null
                THEN masm_unparseX86Expression(expr.seg, FALSE, NoLabels)
                ELSE {Ok(<<>>, 0)},
                masm_unparseX86Expression(expr.addr, FALSE, labels), "Mem")
  ELSE IF IsKind(expr, "Reg") THEN {Ok(<<expr.r>>, 0)}
  ELSE IF IsKind(expr, "IReg") THEN {Ok(<<"(">> \o Dec(expr.index) \o <<")">>, 0)}
  ELSE IF IsKind(expr, "Int") THEN UnparseIntegerValue(expr, labels)
  ELSE {Fatal}


\* The two-argument overload: walk the parent chain from expr to the
\* enclosing x86 instruction.  ctx abstracts what the walk finds: "none",
\* "x86" or "x86_lea".  A null expr never enters the loop.
masm_unparseX86Expression2(expr, ctx, labels) ==
  IF expr = Null \/ ctx = "none" THEN {Ok(<<"?">>, 0)}
  ELSE masm_unparseX86Expression(expr, ctx = "x86_lea", labels)

\* ------------------------------------------------------ debug_opcode_bytes
Min(a, b) == IF a <= b THEN a ELSE b

RECURSIVE HexBytes(_, _)
\* the loop for (i = 0; i < n; i++) result += "%02X" of data[i]
HexBytes(data, n) ==
  IF n = 0 THEN <<>> ELSE HexBytes(data, n - 1) \o FmtByte(data[n])

\* the marker test written as >= instead of >
debug_opcode_bytes_MarkerAtLimit(data, max_bytes) ==
  HexBytes(data, Min(Len(data), max_bytes))
  \o (IF Len(data) >= max_bytes THEN <<"+">> ELSE <<>>)

debug_opcode_bytes(data, max_bytes) ==
  HexBytes(data, Min(Len(data), max_bytes))
  \o (IF Len(data) > max_bytes THEN <<"+">> ELSE <<>>)

\* ------------------------------------------------------- debug_instruction
\* "%0" PRIX64: upper-case hex, no prefix, no padding
UpperHexDigits(v) == Digits(StripZeros(v), UpperHex)

RECURSIVE Spaces(_)
Spaces(n) == IF n <= 0 THEN <<>> ELSE <<" ">> \o Spaces(n - 1)

\* "%-9s": left-justified in a field of 9
PadMnemonic(m) == m \o Spaces(9 - Len(m))

OpBytes(inst, max_bytes) ==
  IF max_bytes > 0 THEN <<" ; BYTES: ">> \o debug_opcode_bytes(inst.rawBytes, max_bytes)
  ELSE <<>>

InstCtx(inst) == IF inst.lea THEN "x86_lea" ELSE "x86"

RECURSIVE OperandString(_, _, _)
\* the operand loop: opstr after the first n operands
OperandString(inst, n, labels) ==
  IF n = 0 THEN {Ok(<<>>, 0)}
  ELSE Binary(OperandString(inst, n - 1, labels),
              {IF o.st = "ok" /\ n # Len(inst.operands)
               THEN [o EXCEPT !.text = o.text \o <<",", " ">>] ELSE o
               : o \in masm_unparseX86Expression2(inst.operands[n], InstCtx(inst), labels)},
              "append")

\* snprintf(buffer, 512, ...) cuts the line at 511 characters; the lines of
\* the bounded inputs below are far shorter, so the cut is not modelled.
debug_instruction(inst, max_bytes, labels) ==
  IF inst = Null THEN {Ok(<<"NULL!">>, 0)}
  ELSE IF ~inst.x86
  THEN {Ok(<<"<addr_str>", " ", "<unparseInstruction>">> \o OpBytes(inst, max_bytes), 0)}
  ELSE {IF o.st # "ok" THEN o
        ELSE [o EXCEPT !.text = UpperHexDigits(inst.address) \o <<":", " ">>
                                \o PadMnemonic(inst.mnemonic) \o <<" ">> \o o.text
                                \o OpBytes(inst, max_bytes)]
        : o \in OperandString(inst, Len(inst.operands), labels)}


\* ------------------------------------------------------ expression trees
Reg(name) == [k |-> "Reg", r |-> name]

IntegerValue(bits, digits) == [k |-> "Int", w |-> bits, v |-> U64(digits)]

Add(l, r) == [k |-> "Add", l |-> l, r |-> r]

Subtract(l, r) == [k |-> "Sub", l |-> l, r |-> r]

Multiply(l, r) == [k |-> "Mul", l |-> l, r |-> r]

MemoryReference(addr, seg) == [k |-> "Mem", addr |-> addr, seg |-> seg]

IndirectRegister(index) == [k |-> "IReg", index |-> index]

\* a node of a variant the switch has no case for
Unrecognized == [k |-> "Unk"]

\* ------------------------------------------------------------ input sets
BaseRegs == {"eax", "ebx"}

IndexRegs == {"ecx", "eax"}

\* literals by width: zero, one, the largest positive value, the lone sign
\* bit, sign bit plus one, all ones, and an address that may carry a label
Literals ==
  {IntegerValue(8, d) : d \in {<<>>, <<1>>, <<7, 15>>, <<8, 0>>, <<8, 1>>, <<15, 15>>}}
  \cup {IntegerValue(16, d) : d \in {<<>>, <<8, 0>>, <<8, 0, 0, 0>>, <<8, 0, 0, 1>>,
                                     <<15, 15, 15, 15>>}}
  \cup {IntegerValue(32, d) : d \in {<<>>, <<4, 0, 1, 0, 0, 0>>, <<8, 0, 0, 0, 0, 0, 0, 0>>,
                                     <<8, 0, 0, 0, 0, 0, 0, 1>>,
                                     <<15, 15, 15, 15, 15, 15, 15, 8>>}}
  \cup {IntegerValue(64, d) : d \in {<<>>, <<4, 0, 1, 0, 0, 0>>, <<8, 0, 0, 0, 0, 0, 0, 0>>,
                                     <<8, 0, 0, 0, 0, 0, 0, 0, 0, 0, 0, 0, 0, 0, 0, 0>>,
                                     <<8, 0, 0, 0, 0, 0, 0, 0, 0, 0, 0, 0, 0, 0, 0, 1>>,
                                     <<15, 15, 15, 15, 15, 15, 15, 15, 15, 15, 15, 15, 15, 15, 15, 8>>}}

\* a literal of a width the formatter has no branch for
OddLiteral == IntegerValue(4, <<5>>)

Scales == {IntegerValue(8, d) : d \in {<<>>, <<1>>, <<2>>, <<4>>, <<8>>, <<1, 0>>}}

RECURSIVE LabelName(_)
\* a name of n characters
LabelName(n) == IF n = 0 THEN <<>> ELSE <<"L">> \o LabelName(n - 1)

LabelKey == U64(<<4, 0, 1, 0, 0, 0>>)

NegKey == U64(<<8, 0, 0, 0, 0, 0, 0, 1>>)

LabelMapOf(name) == RoseLabelMap([key \in {Zero64, LabelKey, NegKey} |-> name])

LabelMaps ==
  {NoLabels, RoseLabelMap([key \in {} |-> <<>>])}
  \cup {LabelMapOf(LabelName(n)) : n \in {0, 1, BufSize - 1, BufSize}}

SomeLabels == LabelMapOf(LabelName(1))

\* the four groupings of base + index*scale + displacement (g), with the
\* multiply written either way round (o)
ScaledIndex(o, x, s) == IF o = 1 THEN Multiply(Reg(x), s) ELSE Multiply(s, Reg(x))

AddressTree(g, o, b, x, s, d) ==
  MemoryReference(
    IF g = 1 THEN Add(Add(Reg(b), ScaledIndex(o, x, s)), d)
    ELSE IF g = 2 THEN Add(Add(Reg(b), d), ScaledIndex(o, x, s))
    ELSE IF g = 3 THEN Add(Reg(b), Add(ScaledIndex(o, x, s), d))
    ELSE Add(d, Add(Reg(b), ScaledIndex(o, x, s))),
    Null)

\* operands of every shape for the three flattened positions
Atoms ==
  {Reg("eax"), IntegerValue(8, <<8>>), Multiply(Reg("ecx"), IntegerValue(8, <<4>>)),
   Multiply(IntegerValue(8, <<4>>), Reg("ecx")), Multiply(Reg("ecx"), Reg("eax")),
   Subtract(Reg("eax"), IntegerValue(8, <<8>>)), IndirectRegister(1), Unrecognized, Null,
   Add(Reg("eax"), IntegerValue(8, <<8>>)), MemoryReference(Reg("eax"), Null)}

Segments == {Null, Reg("fs"), Reg("es"), Unrecognized}

\* three operands under either grouping of the two Adds
ThreeOperandTree(g, a, b, c, seg) ==
  MemoryReference(IF g = 1 THEN Add(Add(a, b), c) ELSE Add(a, Add(b, c)), seg)

SmallTrees ==
  Atoms \cup {OddLiteral}
  \cup {Add(a, b) : a \in Atoms, b \in Literals}
  \cup {Subtract(a, b) : a \in Atoms, b \in Atoms}
  \cup {MemoryReference(a, seg) : a \in Atoms, seg \in Segments}

\* arguments of the two-argument overload
Inputs2 ==
  {[expr |-> e, ctx |-> c, labels |-> SomeLabels]
   : e \in Atoms \cup {MemoryReference(Reg("eax"), Unrecognized)},
     c \in {"none", "x86", "x86_lea"}}

Bytes == {0, 10, 255}

RECURSIVE SeqsUpTo(_, _)
\* the sequences over S of length at most n
SeqsUpTo(S, n) ==
  IF n = 0 THEN {<<>>}
  ELSE SeqsUpTo(S, n - 1) \cup {Append(q, x) : q \in {p \in SeqsUpTo(S, n - 1) : Len(p) = n - 1}, x \in S}

Operands ==
  {Null, Reg("edx"), IntegerValue(32, <<4, 0, 1, 0, 0, 0>>), Unrecognized,
   MemoryReference(Add(Add(Reg("eax"), Multiply(Reg("ecx"), IntegerValue(8, <<4>>))),
                       IntegerValue(8, <<15, 8>>)), Null)}

Instruction(x86, lea, ops, raw) ==
  [x86 |-> x86, lea |-> lea, address |-> U64(<<4, 0, 1, 0, 0, 0>>),
   mnemonic |-> IF lea THEN <<"l", "e", "a">> ELSE <<"m", "o", "v">>,
   operands |-> ops, rawBytes |-> raw]

Instructions ==
  {Null}
  \cup {Instruction(TRUE, lea, ops, <<137, 84>>)
        : lea \in BOOLEAN, ops \in SeqsUpTo(Operands, MaxOperands)}
  \cup {Instruction(FALSE, FALSE, <<>>, raw) : raw \in {<<>>, <<137, 84>>}}


MatchedOperand ==
  MemoryReference(Add(Add(Reg("eax"), Multiply(Reg("ecx"), IntegerValue(8, <<4>>))),
                      IntegerValue(8, <<15, 8>>)), Null)

StatementPool ==
  {Instruction(TRUE, FALSE, <<MatchedOperand, Reg("edx")>>, <<137, 84>>),
   Instruction(FALSE, FALSE, <<>>, <<137, 84>>)}

Block(stmts, static) == [reason |-> "<reasonString>", static |-> static, stmts |-> stmts]

\* an instruction whose operand the unparser has no case for
BadStatement == Instruction(TRUE, FALSE, <<Unrecognized>>, <<137, 84>>)

GoodStatement == Instruction(TRUE, FALSE, <<MatchedOperand, Reg("edx")>>, <<137, 84>>)

Blocks ==
  {Block(q, FALSE) : q \in SeqsUpTo(StatementPool, MaxStmts)}
  \cup {Block(<<GoodStatement>>, TRUE), Block(<<GoodStatement, BadStatement>>, FALSE)}

\* arguments of debug_function; fd is the list of blocks in flow order
Function(f, bbl, sr) ==
  [fd |-> f, max_bytes |-> MaxMaxBytes, basic_block_lines |-> bbl, show_reasons |-> sr,
   labels |-> SomeLabels]

\* ---------------------------------------------------------------- state
VARIABLES
  pc,      \* "idle", "returned", "aborted", or a position inside debug_function
  op,      \* the entry point called
  args,    \* its arguments
  result,  \* the outcome of a finished call
  vertex,  \* debug_function: index of the current block
  j,       \* debug_function: index of the current statement
  lines    \* debug_function: the lines appended to result so far

vars == <<pc, op, args, result, vertex, j, lines>>

NoResult == [st |-> "none", text |-> <<>>, w |-> 0]

Init ==
  /\ pc = "idle"
  /\ op = "none"
  /\ args = <<>>
  /\ result = NoResult
  /\ vertex = 0
  /\ j = 0
  /\ lines = <<>>

\* a call, made when idle, that runs to its end in one step
Finish(name, a, outcomes) ==
  /\ op' = name
  /\ args' = a
  /\ \E o \in outcomes :
       /\ result' = o
       /\ pc' = IF o.st = "ok" THEN "returned" ELSE "aborted"
  /\ UNCHANGED <<vertex, j, lines>>

\* family and form record how the input tree was built; the call reads
\* neither
Unparse4(family, form, e, lea, m) ==
  Finish("masm_unparseX86Expression",
         [family |-> family, form |-> form, expr |-> e, leaMode |-> lea, labels |-> m],
         masm_unparseX86Expression(e, lea, m))

Call_masm_unparseX86Expression ==
  /\ pc = "idle"
  /\ \/ \E g \in 1..4, o \in 1..2, b \in BaseRegs, x \in IndexRegs, s \in Scales, d \in Literals :
          Unparse4("address", [g |-> g, base |-> b, index |-> x, scale |-> s, disp |-> d],
                   AddressTree(g, o, b, x, s, d), FALSE, SomeLabels)
     \/ \E g \in 1..2, a \in Atoms \ {Null}, b \in Atoms \ {Null}, c \in Atoms \ {Null},
           seg \in {Null, Unrecognized}, lea \in BOOLEAN :
          Unparse4("three", <<a, b, c>>, ThreeOperandTree(g, a, b, c, seg), lea, SomeLabels)
     \/ \E e \in SmallTrees, lea \in BOOLEAN : Unparse4("small", <<>>, e, lea, SomeLabels)
     \/ \E e \in Literals, m \in LabelMaps : Unparse4("literal", <<>>, e, FALSE, m)

Call_masm_unparseX86Expression2 ==
  /\ pc = "idle"
  /\ \E a \in Inputs2 :
    Finish("masm_unparseX86Expression2", a,
           masm_unparseX86Expression2(a.expr, a.ctx, a.labels))

Call_debug_opcode_bytes ==
  /\ pc = "idle"
  /\ \E data \in SeqsUpTo(Bytes, MaxData), max_bytes \in 0..MaxMaxBytes :
    Finish("debug_opcode_bytes", [data |-> data, max_bytes |-> max_bytes],
           {Ok(debug_opcode_bytes(data, max_bytes), 0)})

Call_debug_instruction ==
  /\ pc = "idle"
  /\ \E inst \in Instructions, max_bytes \in {0, MaxMaxBytes} :
    Finish("debug_instruction", [inst |-> inst, max_bytes |-> max_bytes, labels |-> SomeLabels],
           debug_instruction(inst, max_bytes, SomeLabels))

\* debug_function, one step per loop position
df_Enter ==
  /\ pc = "idle"
  /\ \E f \in SeqsUpTo(Blocks, MaxBlocks), bbl \in BOOLEAN, sr \in BOOLEAN :
       args' = Function(f, bbl, sr)
  /\ op' = "debug_function"
  /\ pc' = "df_vertex"
  /\ vertex' = 1
  /\ j' = 0
  /\ lines' = <<>>
  /\ UNCHANGED result

Line(kind, v, s, text) == [kind |-> kind, vertex |-> v, stmt |-> s, text |-> text]

\* the block's reason line and static-data marker
BlockHeadLines(a, v) ==
  (IF a.show_reasons
   THEN <<Line("reason", v, 0, <<"; block reason: ", a.fd[v].reason>>)>> ELSE <<>>)
  \o (IF a.fd[v].static
      THEN <<Line("static", v, 0, <<"; hey, this block is static data!">>)>> ELSE <<>>)

\* the statement loop started at the second statement
df_BlockHead_SkipFirst ==
  /\ pc = "df_vertex"
  /\ vertex <= Len(args.fd)
  /\ lines' = lines \o BlockHeadLines(args, vertex)
  /\ j' = 2
  /\ pc' = "df_stmt"
  /\ UNCHANGED <<op, args, result, vertex>>

df_BlockHead ==
  /\ pc = "df_vertex"
  /\ vertex <= Len(args.fd)
  /\ lines' = lines \o BlockHeadLines(args, vertex)
  /\ j' = 1
  /\ pc' = "df_stmt"
  /\ UNCHANGED <<op, args, result, vertex>>

df_Statement ==
  /\ pc = "df_stmt"
  /\ j <= Len(args.fd[vertex].stmts)
  /\ \E o \in debug_instruction(args.fd[vertex].stmts[j], args.max_bytes, args.labels) :
       IF o.st = "ok"
       THEN /\ lines' = Append(lines, Line("insn", vertex, j, o.text))
            /\ j' = j + 1
            /\ UNCHANGED <<pc, result>>
       ELSE /\ pc' = "aborted"
            /\ result' = o
            /\ UNCHANGED <<lines, j>>
  /\ UNCHANGED <<op, args, vertex>>

df_BlockEnd ==
  /\ pc = "df_stmt"
  /\ j > Len(args.fd[vertex].stmts)
  /\ lines' = IF args.basic_block_lines THEN Append(lines, Line("blank", vertex, 0, <<>>))
              ELSE lines
  /\ vertex' = vertex + 1
  /\ pc' = "df_vertex"
  /\ UNCHANGED <<op, args, result, j>>

df_Return ==
  /\ pc = "df_vertex"
  /\ vertex > Len(args.fd)
  /\ pc' = "returned"
  /\ result' = Ok(<<>>, 0)
  /\ UNCHANGED <<op, args, vertex, j, lines>>

\* the caller takes the result and is ready for the next call
Return ==
  /\ pc \in {"returned", "aborted"}
  /\ pc' = "idle"
  /\ op' = "none"
  /\ args' = <<>>
  /\ result' = NoResult
  /\ vertex' = 0
  /\ j' = 0
  /\ lines' = <<>>

Next ==
  \/ Call_masm_unparseX86Expression
  \/ Call_masm_unparseX86Expression2
  \/ Call_debug_opcode_bytes
  \/ Call_debug_instruction
  \/ df_Enter
  \/ df_BlockHead
  \/ df_Statement
  \/ df_BlockEnd
  \/ df_Return
  \/ Return

Spec == Init /\ [][Next]_vars


\* ================================================================ claims
\* helpers that read printed text back
HexValue(c) == CHOOSE d \in 0..15 : LowerHex[d + 1] = c \/ UpperHex[d + 1] = c

IsLowerHexNumeral(t) ==
  /\ Len(t) \in 1..Nibbles
  /\ \A i \in 1..Len(t) : \E d \in 0..15 : LowerHex[d + 1] = t[i]
  /\ Len(t) > 1 => t[1] # "0"

RECURSIVE HexValues(_)
HexValues(t) == IF t = <<>> THEN <<>> ELSE <<HexValue(Head(t))>> \o HexValues(Tail(t))

ParseHex(t) == U64(HexValues(t))

RECURSIVE AddFrom(_, _, _, _)
AddFrom(a, b, i, carry) ==
  IF i = 0 THEN <<>>
  ELSE AddFrom(a, b, i - 1, (a[i] + b[i] + carry) \div 16) \o <<(a[i] + b[i] + carry) % 16>>

\* a + b modulo 2^64
Sum64(a, b) == U64(AddFrom(a, b, Nibbles, 0))

GreaterU64(a, b) ==
  \E i \in 1..Nibbles : a[i] > b[i] /\ \A n \in 1..(i - 1) : a[n] = b[n]

\* 2^(w-1)
Pow2Minus1(w) == Tuple16([i \in 1..Nibbles |-> IF i = Nibbles - (w \div 4) + 1 THEN 8 ELSE 0])

DropFirst(t, n) == SubSeq(t, n + 1, Len(t))

\* t is 0x followed by the lower-case hex of v
PrintsUnsigned(t, v) ==
  /\ Len(t) >= 3
  /\ SubSeq(t, 1, 2) = <<"0", "x">>
  /\ IsLowerHexNumeral(DropFirst(t, 2))
  /\ ParseHex(DropFirst(t, 2)) = v

\* t is 0x followed by the lower-case hex of 2^w - v
PrintsComplement(t, v, w) ==
  /\ Len(t) >= 3
  /\ SubSeq(t, 1, 2) = <<"0", "x">>
  /\ IsLowerHexNumeral(DropFirst(t, 2))
  /\ ParseHex(DropFirst(t, 2)) # Zero64
  /\ AndMask(ParseHex(DropFirst(t, 2)), w) = ParseHex(DropFirst(t, 2))
  /\ AndMask(Sum64(ParseHex(DropFirst(t, 2)), v), w) = Zero64

Called(name) == op = name /\ pc \in {"returned", "aborted"}

\* ---- C5
\* C5: debug_opcode_bytes returns exactly min(N,M)*2 hex characters that
\* encode the first min(N,M) bytes in order, followed by a single '+' if and
\* only if N > M.
C5_TruncationMarker ==
  Called("debug_opcode_bytes") =>
    LET N == Len(args.data)
        M == args.max_bytes
        n == IF N <= M THEN N ELSE M
        t == result.text
    IN /\ result.st = "ok"
       /\ Len(t) = 2 * n + (IF N > M THEN 1 ELSE 0)
       /\ \A i \in 1..n :
            /\ t[2 * i - 1] # "+" /\ t[2 * i] # "+"
            /\ HexValue(t[2 * i - 1]) * 16 + HexValue(t[2 * i]) = args.data[i]
       /\ (N > M) <=> (t # <<>> /\ t[Len(t)] = "+")

C5_Witness ==
  /\ Called("debug_opcode_bytes")
  /\ Len(args.data) > args.max_bytes
  /\ args.max_bytes = 2
  /\ result.text = <<"0", "A", "F", "F", "+">>


\* ---- C3
\* the literal of a call of the unparser on a bare IntegerValue
LiteralCall == Called("masm_unparseX86Expression") /\ args.family = "literal"

\* no label is bound to the literal: the width never has one, there is no
\* map, the value is 0, or the value is not a key
Unlabelled ==
  \/ args.expr.w \in {8, 16}
  \/ args.labels.null
  \/ args.expr.v = Zero64
  \/ args.expr.v \notin DOMAIN args.labels.map

\* bit w-1 set and the other bits not all zero, i.e. v > 2^(w-1)
PrintedNegative == GreaterU64(args.expr.v, Pow2Minus1(args.expr.w))

LabelledLiteral ==
  /\ args.expr.w \in {32, 64}
  /\ ~args.labels.null
  /\ args.expr.v # Zero64
  /\ args.expr.v \in DOMAIN args.labels.map

IsNumeral(t) ==
  \/ t = <<"0">>
  \/ PrintsUnsigned(t, ParseHex(DropFirst(t, 2)))
  \/ t # <<>> /\ t[1] = "-" /\ PrintsUnsigned(DropFirst(t, 1), ParseHex(DropFirst(t, 3)))

\* C4: a 32- or 64-bit literal whose value is a nonzero key of the LabelMap
\* renders as exactly the label name; the value 0 and the widths 8 and 16
\* always render as a numeral.
C4_LabelPrecedence ==
  LiteralCall =>
    /\ LabelledLiteral =>
         (result.st = "ok" /\ result.text = args.labels.map[args.expr.v])
    /\ (args.expr.v = Zero64 \/ args.expr.w \in {8, 16}) =>
         (result.st = "ok" /\ IsNumeral(result.text))

\* ---- C10
\* C10: rendering an IntegerValue never writes more than 64 bytes into the
\* format buffer, and the text returned is the complete label or numeral.
C10_BufferBound ==
  LiteralCall =>
    /\ result.w <= BufSize
    /\ result.st = "ok"
    /\ LabelledLiteral /\ args.labels.map[args.expr.v] # <<>> =>
         result.text = args.labels.map[args.expr.v]


\* ---- C8
\* a call on base + index*scale + displacement in one of the four groupings
AddressCall == Called("masm_unparseX86Expression") /\ args.family = "address"

\* bit w-1 of the displacement is set, i.e. v >= 2^(w-1)
DispNegative == ~GreaterU64(Pow2Minus1(args.form.disp.w), args.form.disp.v)

\* t is the sign, 0x, the magnitude of the displacement, and the bracket
PrintsDisplacement(t) ==
  /\ Len(t) >= 5
  /\ t[1] = (IF DispNegative THEN "-" ELSE "+")
  /\ t[Len(t)] = "]"
  /\ IF DispNegative
     THEN PrintsComplement(SubSeq(t, 2, Len(t) - 1), args.form.disp.v, args.form.disp.w)
     ELSE PrintsUnsigned(SubSeq(t, 2, Len(t) - 1), args.form.disp.v)

\* the position of the displacement's sign: the last + or - of the text
SignAt(t) == CHOOSE i \in 1..Len(t) :
  /\ t[i] \in {"+", "-"}
  /\ \A n \in (i + 1)..Len(t) : t[n] \notin {"+", "-"}

\* C8: in a matched form the displacement of width w prints as '-' exactly
\* when bit w-1 is set, '+' otherwise, then 0x and the hexadecimal absolute
\* value of its signed w-bit reading, for every width and value.
C8_DisplacementSign ==
  AddressCall =>
    /\ result.st = "ok"
    /\ \E i \in 1..Len(result.text) : result.text[i] \in {"+", "-"}
    /\ PrintsDisplacement(DropFirst(result.text, SignAt(result.text) - 1))

\* ---- C1
ScaleValue == args.form.scale.v[Nibbles - 1] * 16 + args.form.scale.v[Nibbles]

CanonicalPrefix ==
  <<"[", args.form.base, "+", args.form.index>>
  \o (IF ScaleValue # 1 THEN <<"*">> \o Dec(ScaleValue) ELSE <<>>)

\* C1: for every base R, index X, scale S # 0 and displacement D, each of
\* the four groupings is matched and renders as '[' R '+' X, '*S' only when
\* S # 1, then the signed displacement and ']'.
C1_OrderInvariance ==
  (AddressCall /\ ScaleValue # 0) =>
    /\ X86IndirectAddress(args.expr).complete_
    /\ result.st = "ok"
    /\ Len(result.text) > Len(CanonicalPrefix)
    /\ SubSeq(result.text, 1, Len(CanonicalPrefix)) = CanonicalPrefix
    /\ PrintsDisplacement(DropFirst(result.text, Len(CanonicalPrefix)))

\* ---- C2
IsBaseShape(e) == e.k = "Reg"

IsDispShape(e) == e.k = "Int"

IsScaledShape(e) ==
  /\ e.k = "Mul"
  /\ \/ e.l.k = "Reg" /\ e.r.k = "Int"
     \/ e.l.k = "Int" /\ e.r.k = "Reg"

ExactlyOneEach(ops) ==
  /\ Cardinality({i \in 1..3 : IsBaseShape(ops[i])}) = 1
  /\ Cardinality({i \in 1..3 : IsScaledShape(ops[i])}) = 1
  /\ Cardinality({i \in 1..3 : IsDispShape(ops[i])}) = 1

\* C2: the matcher declares a match only if the three flattened operands are
\* exactly one bare register, one register-by-literal multiply and one bare
\* literal; so emit() never runs with a member unset.
C2_MatchOnlyCanonical ==
  (Called("masm_unparseX86Expression") /\ args.family = "three") =>
    (X86IndirectAddress(args.expr).complete_ =>
       /\ ExactlyOneEach(args.form)
       /\ X86IndirectAddress(args.expr).frame_pointer_reg # Null
       /\ X86IndirectAddress(args.expr).index_reg # Null
       /\ X86IndirectAddress(args.expr).stride_integer # Null
       /\ X86IndirectAddress(args.expr).offset_integer # Null
       /\ result.st = "ok")

\* ---- C6
RECURSIVE ContainsUnrecognized(_)
ContainsUnrecognized(e) ==
  IF e.k = "Unk" THEN TRUE
  ELSE IF e.k \in {"Add", "Sub", "Mul"} THEN ContainsUnrecognized(e.l) \/ ContainsUnrecognized(e.r)
  ELSE IF e.k = "Mem" THEN ContainsUnrecognized(e.addr) \/ ContainsUnrecognized(e.seg)
  ELSE FALSE

\* C6: a tree with a node of an unrecognized variant anywhere in it makes the
\* unparser signal the fatal unsupported-kind condition; no text is returned.
C6_UnsupportedIsFatal ==
  (Called("masm_unparseX86Expression") /\ ContainsUnrecognized(args.expr)) =>
    result.st = "fatal"

\* ---- C7
Count(t, tok) == Cardinality({i \in 1..Len(t) : t[i] = tok})

\* C7: a null operand renders as exactly BOGUS:NULL through every entry
\* point, including the per-operand call of debug_instruction, and the
\* other operands are still rendered.
C7_NullSentinel ==
  /\ (Called("masm_unparseX86Expression") /\ args.expr = Null) =>
       (result.st = "ok" /\ result.text = <<"BOGUS:NULL">>)
  /\ (Called("masm_unparseX86Expression2") /\ args.expr = Null) =>
       (result.st = "ok" /\ result.text = <<"BOGUS:NULL">>)
  /\ ( /\ Called("debug_instruction")
       /\ args.inst # Null
       /\ args.inst.x86
       /\ \A i \in 1..Len(args.inst.operands) : args.inst.operands[i] \in {Null, Reg("edx")} ) =>
       /\ result.st = "ok"
       /\ Count(result.text, "BOGUS:NULL")
            = Cardinality({i \in 1..Len(args.inst.operands) : args.inst.operands[i] = Null})
       /\ Count(result.text, "edx")
            = Cardinality({i \in 1..Len(args.inst.operands) : args.inst.operands[i] = Reg("edx")})


\* ---- C9
LinesOf(kind, v) == {i \in 1..Len(lines) : lines[i].kind = kind /\ lines[i].vertex = v}

\* C9: debug_function emits exactly one instruction line per statement of
\* every block, blocks in flow order and statements in list order; a block's
\* reason line (when show_reasons) precedes its instruction lines, its blank
\* line (when basic_block_lines) follows them, and no line of one block lies
\* among the lines of another.
C9_FunctionListing ==
  (op = "debug_function") =>
    /\ \A i, n \in 1..Len(lines) : i < n => lines[i].vertex <= lines[n].vertex
    /\ \A i, n \in 1..Len(lines) :
         (i < n /\ lines[i].vertex = lines[n].vertex) =>
           /\ lines[n].kind # "reason"
           /\ lines[i].kind # "blank"
           /\ (lines[i].kind = "insn" /\ lines[n].kind = "insn") => lines[i].stmt < lines[n].stmt
    /\ \A i \in 1..Len(lines) :
         /\ lines[i].vertex \in 1..Len(args.fd)
         /\ lines[i].kind = "insn" =>
              /\ lines[i].stmt \in 1..Len(args.fd[lines[i].vertex].stmts)
              /\ \E o \in debug_instruction(args.fd[lines[i].vertex].stmts[lines[i].stmt],
                                            args.max_bytes, args.labels) :
                   o.st = "ok" /\ o.text = lines[i].text
    /\ pc = "returned" =>
         \A v \in 1..Len(args.fd) :
           /\ \A n \in 1..Len(args.fd[v].stmts) :
                Cardinality({i \in LinesOf("insn", v) : lines[i].stmt = n}) = 1
           /\ Cardinality(LinesOf("reason", v)) = (IF args.show_reasons THEN 1 ELSE 0)
           /\ Cardinality(LinesOf("blank", v)) = (IF args.basic_block_lines THEN 1 ELSE 0)

C9_Witness ==
  /\ op = "debug_function"
  /\ pc = "returned"
  /\ Len(args.fd) = 2
  /\ Len(args.fd[1].stmts) = 2
  /\ Len(args.fd[2].stmts) = 2
  /\ args.show_reasons
  /\ args.basic_block_lines
  /\ Len(lines) = 8

====
